---------------------------- MODULE Spec2Model ----------------------------
(***************************************************************************)
(* A model of the CHIP-8 interpreter of src/src/chip8.rs and               *)
(* src/src/keypad.rs: the Chip8 structure, the 35 operation handlers, the  *)
(* dispatcher run_op_code and the cycle driver start_cycle.                *)
(*                                                                         *)
(* One step of the model is one iteration of the 'cycle loop of            *)
(* start_cycle.  The handlers are operators on a record holding the fields *)
(* of the Chip8 structure; an iteration that executes an instruction       *)
(* commits the record the handler returns, after the timer decrement and   *)
(* keypad release that end the iteration.                                  *)
(***************************************************************************)
EXTENDS Integers, Sequences, FiniteSets, TLC

VARIABLES
    v,          \* Chip8.v: V0..VF
    i,          \* Chip8.i: index register
    stack,      \* Chip8.stack
    sp,         \* Chip8.sp
    dt,         \* Chip8.dt
    st,         \* Chip8.st
    frame,      \* Chip8.frame: frame[y][x]
    pc,         \* Chip8.pc
    memory,     \* Chip8.memory
    key,        \* Chip8.keypad.key: <<>> is None, <<k>> is Some(k)
    op_code,    \* start_cycle's op_code of the last iteration: <<>> when it fetched nothing
    status      \* "constructed" after Chip8::new, "running" in the 'cycle loop,
                \* "halted" after break 'cycle, "panicked"

vars == <<v, i, stack, sp, dt, st, frame, pc, memory, key, op_code, status>>

---------------------------------------------------------------------------
(* Program constants *)

ADDR_PROGRAM_START == \h200

FONT_SET ==
    << \hF0, \h90, \h90, \h90, \hF0,
       \h20, \h60, \h20, \h20, \h70,
       \hF0, \h10, \hF0, \h80, \hF0,
       \hF0, \h10, \hF0, \h10, \hF0,
       \h90, \h90, \hF0, \h10, \h10,
       \hF0, \h80, \hF0, \h10, \hF0,
       \hF0, \h80, \hF0, \h90, \hF0,
       \hF0, \h10, \h20, \h40, \h40,
       \hF0, \h90, \hF0, \h90, \hF0,
       \hF0, \h90, \hF0, \h10, \hF0,
       \hF0, \h90, \hF0, \h90, \h90,
       \hE0, \h90, \hE0, \h90, \hE0,
       \hF0, \h80, \h80, \h80, \hF0,
       \hE0, \h90, \h90, \h90, \hE0,
       \hF0, \h80, \hF0, \h80, \hF0,
       \hF0, \h80, \hF0, \h80, \h80 >>

FRAME_WIDTH == 64
FRAME_HEIGHT == 32
MEMORY_SIZE == 4096
STACK_SIZE == 32
PC_MAX == \hFFF

---------------------------------------------------------------------------
(* Machine arithmetic: u8 and u16 values and Rust's bit operators *)

U8 == 256
U16 == 65536

Min(a, b) == IF a <= b THEN a ELSE b

RECURSIVE BitAnd(_, _)
BitAnd(a, b) ==
    IF a = 0 \/ b = 0 THEN 0
    ELSE (a % 2) * (b % 2) + 2 * BitAnd(a \div 2, b \div 2)

RECURSIVE BitOr(_, _)
BitOr(a, b) ==
    IF a = 0 THEN b
    ELSE IF b = 0 THEN a
    ELSE (IF (a % 2) + (b % 2) > 0 THEN 1 ELSE 0) + 2 * BitOr(a \div 2, b \div 2)

RECURSIVE BitXor(_, _)
BitXor(a, b) ==
    IF a = 0 THEN b
    ELSE IF b = 0 THEN a
    ELSE (((a % 2) + (b % 2)) % 2) + 2 * BitXor(a \div 2, b \div 2)

---------------------------------------------------------------------------
(* The Chip8 structure as a record, and the handlers as operators on it.   *)
(* Field panicked is TRUE once a handler has panicked (an index out of     *)
(* bounds, or an arithmetic overflow in a build with overflow checks).     *)

Self ==
    [ v |-> v, i |-> i, stack |-> stack, sp |-> sp, dt |-> dt, st |-> st,
      frame |-> frame, pc |-> pc, memory |-> memory, key |-> key,
      panicked |-> FALSE ]

Panic(self) == [self EXCEPT !.panicked = TRUE]

\* next_program without the cap
next_program_unclamped(self) == [self EXCEPT !.pc = self.pc + 2]

next_program(self) == [self EXCEPT !.pc = Min(self.pc + 2, PC_MAX)]

\* ret that puts the popped address into pc and stops there
ret_popped_only(self) ==
    IF self.sp = 0 \/ self.sp - 1 >= STACK_SIZE
    THEN Panic(self)
    ELSE [self EXCEPT !.sp = self.sp - 1,
                      !.pc = self.stack[self.sp - 1]]

\* 00EE - RET
ret(self) ==
    IF self.sp = 0 \/ self.sp - 1 >= STACK_SIZE
    THEN Panic(self)    \* sp - 1 overflows (checked build) or indexes stack[255]
    ELSE next_program([self EXCEPT !.sp = self.sp - 1,
                                   !.pc = self.stack[self.sp - 1]])

\* 00E0 - CLS
cls(self) ==
    next_program([self EXCEPT
        !.frame = [yy \in 0..(FRAME_HEIGHT - 1) |-> [xx \in 0..(FRAME_WIDTH - 1) |-> 0]]])

\* 1nnn - JP addr
jp_addr(self, nnn) == [self EXCEPT !.pc = nnn]

\* call_addr on a stack that wraps around when it is full
call_addr_ring(self, nnn) ==
    [self EXCEPT !.stack[self.sp % STACK_SIZE] = self.pc,
                 !.sp = (self.sp % STACK_SIZE) + 1,
                 !.pc = nnn]

\* call_addr that pushes the address after the CALL
call_addr_push_next(self, nnn) ==
    IF self.sp >= STACK_SIZE
    THEN Panic(self)
    ELSE [self EXCEPT !.stack[self.sp] = self.pc + 2,
                      !.sp = self.sp + 1,
                      !.pc = nnn]

\* 2nnn - CALL addr
call_addr(self, nnn) ==
    IF self.sp >= STACK_SIZE
    THEN Panic(self)
    ELSE [self EXCEPT !.stack[self.sp] = self.pc,
                      !.sp = self.sp + 1,
                      !.pc = nnn]

\* se_vx_byte that never takes the skip
se_vx_byte_single(self, x, kk) == next_program(self)

\* 3xkk - SE Vx, byte
se_vx_byte(self, x, kk) ==
    LET s == next_program(self)
    IN  IF s.v[x] = kk THEN next_program(s) ELSE s

\* 4xkk - SNE Vx, byte
sne_vx_byte(self, x, kk) ==
    LET s == next_program(self)
    IN  IF s.v[x] # kk THEN next_program(s) ELSE s

\* 5xy0 - SE Vx, Vy
se_vx_vy(self, x, y) ==
    LET s == next_program(self)
    IN  IF s.v[x] = s.v[y] THEN next_program(s) ELSE s

\* 6xkk - LD Vx, byte
ld_vx_byte(self, x, kk) == next_program([self EXCEPT !.v[x] = kk])

\* 7xkk - ADD Vx, byte
add_vx_byte(self, x, kk) == next_program([self EXCEPT !.v[x] = (@ + kk) % U8])

\* 8xy0 - LD Vx, Vy
ld_vx_vy(self, x, y) == next_program([self EXCEPT !.v[x] = self.v[y]])

\* 8xy1 - OR Vx, Vy
or_vx_vy(self, x, y) == next_program([self EXCEPT !.v[x] = BitOr(@, self.v[y])])

\* 8xy2 - AND Vx, Vy
and_vx_vy(self, x, y) == next_program([self EXCEPT !.v[x] = BitAnd(@, self.v[y])])

\* 8xy3 - XOR Vx, Vy
xor_vx_vy(self, x, y) == next_program([self EXCEPT !.v[x] = BitXor(@, self.v[y])])

\* add_vx_vy with the carry taken from a sum above 256 instead of above 255
add_vx_vy_late_carry(self, x, y) ==
    LET sum      == (self.v[x] + self.v[y]) % U8
        overflow == IF self.v[x] + self.v[y] > U8 THEN 1 ELSE 0
        s1       == [self EXCEPT !.v[x] = sum]
        s2       == [s1 EXCEPT !.v[15] = overflow]
    IN  next_program(s2)

\* 8xy4 - ADD Vx, Vy
add_vx_vy(self, x, y) ==
    LET sum      == (self.v[x] + self.v[y]) % U8
        overflow == IF self.v[x] + self.v[y] >= U8 THEN 1 ELSE 0
        s1       == [self EXCEPT !.v[x] = sum]
        s2       == [s1 EXCEPT !.v[15] = overflow]
    IN  next_program(s2)

\* 8xy5 - SUB Vx, Vy
sub_vx_vy(self, x, y) ==
    LET result   == (self.v[x] - self.v[y]) % U8
        overflow == self.v[x] < self.v[y]
        s1       == [self EXCEPT !.v[x] = result]
        s2       == [s1 EXCEPT !.v[15] = IF overflow THEN 0 ELSE 1]
    IN  next_program(s2)

\* 8xy6 - SHR Vx {, Vy}
shr_vx_vy(self, x) ==
    LET s1 == [self EXCEPT !.v[15] = IF BitAnd(self.v[x], 1) = 1 THEN 1 ELSE 0]
        s2 == [s1 EXCEPT !.v[x] = @ \div 2]
    IN  next_program(s2)

\* subn_vx_vy with the flag set only when Vy > Vx: a borrow reported on equality
subn_vx_vy_strict(self, x, y) ==
    LET result   == (self.v[y] - self.v[x]) % U8
        overflow == self.v[y] <= self.v[x]
        s1       == [self EXCEPT !.v[15] = IF overflow THEN 0 ELSE 1]
        s2       == [s1 EXCEPT !.v[x] = result]
    IN  next_program(s2)

\* 8xy7 - SUBN Vx, Vy
subn_vx_vy(self, x, y) ==
    LET result   == (self.v[y] - self.v[x]) % U8
        overflow == self.v[y] < self.v[x]
        s1       == [self EXCEPT !.v[15] = IF overflow THEN 0 ELSE 1]
        s2       == [s1 EXCEPT !.v[x] = result]
    IN  next_program(s2)

\* shl_vx_vy with the flag read after the shift
shl_vx_vy_flag_after(self, x) ==
    LET s1 == [self EXCEPT !.v[x] = (@ * 2) % U8]
        s2 == [s1 EXCEPT !.v[15] = IF s1.v[x] \div 128 = 1 THEN 1 ELSE 0]
    IN  next_program(s2)

\* 8xyE - SHL Vx {, Vy}
shl_vx_vy(self, x) ==
    LET s1 == [self EXCEPT !.v[15] = IF self.v[x] \div 128 = 1 THEN 1 ELSE 0]
        s2 == [s1 EXCEPT !.v[x] = (@ * 2) % U8]
    IN  next_program(s2)

\* 9xy0 - SNE Vx, Vy
sne_vx_vy(self, x, y) ==
    LET s == next_program(self)
    IN  IF s.v[x] # s.v[y] THEN next_program(s) ELSE s

\* Annn - LD I, addr
ld_i_addr(self, nnn) == next_program([self EXCEPT !.i = nnn])

\* jp_v0_addr without the cap
jp_v0_addr_unclamped(self, nnn) == [self EXCEPT !.pc = self.v[0] + nnn]

\* Bnnn - JP V0, addr
jp_v0_addr(self, nnn) == [self EXCEPT !.pc = Min(self.v[0] + nnn, PC_MAX)]

\* Cxkk - RND Vx, byte; r is the value rand::random::<u8>() returns
rnd_vx_byte(self, x, kk, r) == next_program([self EXCEPT !.v[x] = BitAnd(r, kk)])

\* drw_bits with the sprite clipped at the right edge instead of wrapped
RECURSIVE drw_bits_clip(_, _, _, _, _)
drw_bits_clip(self, x, yy, sprite, bit) ==
    IF bit >= 8 \/ (self.v[x] % FRAME_WIDTH) + bit >= FRAME_WIDTH THEN self
    ELSE LET xx    == (self.v[x] % FRAME_WIDTH) + bit
             pixel == BitAnd(sprite \div (2 ^ (7 - bit)), 1)
             s1    == [self EXCEPT !.v[15] = BitOr(@, BitAnd(self.frame[yy][xx], pixel))]
             s2    == [s1 EXCEPT !.frame[yy][xx] = BitXor(@, pixel)]
         IN  drw_bits_clip(s2, x, yy, sprite, bit + 1)

\* drw_bits with the flag assigned, not accumulated: the last pixel decides
RECURSIVE drw_bits_last_hit(_, _, _, _, _)
drw_bits_last_hit(self, x, yy, sprite, bit) ==
    IF bit >= 8 THEN self
    ELSE LET xx    == ((self.v[x] + bit) % U8) % FRAME_WIDTH
             pixel == BitAnd(sprite \div (2 ^ (7 - bit)), 1)
             s1    == [self EXCEPT !.v[15] = BitAnd(self.frame[yy][xx], pixel)]
             s2    == [s1 EXCEPT !.frame[yy][xx] = BitXor(@, pixel)]
         IN  drw_bits_last_hit(s2, x, yy, sprite, bit + 1)

\* drw_bits with the sprite or-ed onto the frame, not xor-ed
RECURSIVE drw_bits_or(_, _, _, _, _)
drw_bits_or(self, x, yy, sprite, bit) ==
    IF bit >= 8 THEN self
    ELSE LET xx    == ((self.v[x] + bit) % U8) % FRAME_WIDTH
             pixel == BitAnd(sprite \div (2 ^ (7 - bit)), 1)
             s1    == [self EXCEPT !.v[15] = BitOr(@, BitAnd(self.frame[yy][xx], pixel))]
             s2    == [s1 EXCEPT !.frame[yy][xx] = BitOr(@, pixel)]
         IN  drw_bits_or(s2, x, yy, sprite, bit + 1)

\* Dxyn - DRW Vx, Vy, nibble: the inner loop, for bit in 0..8
RECURSIVE drw_bits(_, _, _, _, _)
drw_bits(self, x, yy, sprite, bit) ==
    IF bit >= 8 THEN self
    ELSE LET xx    == ((self.v[x] + bit) % U8) % FRAME_WIDTH
             pixel == BitAnd(sprite \div (2 ^ (7 - bit)), 1)
             s1    == [self EXCEPT !.v[15] = BitOr(@, BitAnd(self.frame[yy][xx], pixel))]
             s2    == [s1 EXCEPT !.frame[yy][xx] = BitXor(@, pixel)]
         IN  drw_bits(s2, x, yy, sprite, bit + 1)

\* Dxyn - DRW Vx, Vy, nibble: the outer loop, for byte in 0..n.  The address
\* i + byte is past the memory (memory[..] panics) before it can overflow u16.
RECURSIVE drw_rows(_, _, _, _, _)
drw_rows(self, x, y, n, byte) ==
    IF byte >= n THEN self
    ELSE LET yy   == ((self.v[y] + byte) % U8) % FRAME_HEIGHT
             addr == self.i + byte
         IN  IF addr >= MEMORY_SIZE
             THEN Panic(self)
             ELSE drw_rows(drw_bits(self, x, yy, self.memory[addr], 0), x, y, n, byte + 1)

\* Dxyn - DRW Vx, Vy, nibble
drw_vx_vy_nibble(self, x, y, n) ==
    LET s == drw_rows([self EXCEPT !.v[15] = 0], x, y, n, 0)
    IN  IF s.panicked THEN s ELSE next_program(s)

\* Keypad::is_pressed
is_pressed(k, value) == k # <<>> /\ k[1] = value

\* Keypad::get_key
get_key(k) == k

\* Keypad::up_key
up_key(self) == [self EXCEPT !.key = <<>>]

\* Ex9E - SKP Vx
skp_vx(self, x) ==
    LET s == next_program(self)
    IN  IF is_pressed(s.key, s.v[x]) THEN next_program(s) ELSE s

\* ExA1 - SKNP Vx
sknp_vx(self, x) ==
    LET s == next_program(self)
    IN  IF ~is_pressed(s.key, s.v[x]) THEN next_program(s) ELSE s

\* Fx07 - LD Vx, DT
ld_vx_dt(self, x) == next_program([self EXCEPT !.v[x] = self.dt])

\* ld_vx_k that goes on without a key
ld_vx_k_nonblocking(self, x) ==
    IF get_key(self.key) # <<>>
    THEN next_program([self EXCEPT !.v[x] = get_key(self.key)[1]])
    ELSE next_program(self)

\* Fx0A - LD Vx, K
ld_vx_k(self, x) ==
    IF get_key(self.key) # <<>>
    THEN next_program([self EXCEPT !.v[x] = get_key(self.key)[1]])
    ELSE self

\* Fx15 - LD DT, Vx
ld_dt_vx(self, x) == next_program([self EXCEPT !.dt = self.v[x]])

\* Fx18 - LD ST, Vx
ld_st_vx(self, x) == next_program([self EXCEPT !.st = self.v[x]])

\* Fx1E - ADD I, Vx: the u16 addition panics on overflow in a build with
\* overflow checks and wraps in one without
add_i_vx(self, x, checked) ==
    IF self.i + self.v[x] >= U16 /\ checked
    THEN Panic(self)
    ELSE next_program([self EXCEPT !.i = (self.i + self.v[x]) % U16])

\* Fx29 - LD F, Vx: the product is a u8, widened after the multiplication
ld_f_vx(self, x, checked) ==
    IF self.v[x] * 5 >= U8 /\ checked
    THEN Panic(self)
    ELSE next_program([self EXCEPT !.i = (self.v[x] * 5) % U8])

\* ld_b_vx whose middle byte keeps the hundreds
ld_b_vx_tens(self, x) ==
    LET data == self.v[x]
    IN  IF self.i + 2 >= MEMORY_SIZE
        THEN Panic(self)
        ELSE next_program([self EXCEPT !.memory[self.i] = data \div 100,
                                       !.memory[self.i + 1] = data \div 10,
                                       !.memory[self.i + 2] = data % 10])

\* Fx33 - LD B, Vx
ld_b_vx(self, x) ==
    LET data == self.v[x]
    IN  IF self.i + 2 >= MEMORY_SIZE
        THEN Panic(self)
        ELSE next_program([self EXCEPT !.memory[self.i] = data \div 100,
                                       !.memory[self.i + 1] = (data % 100) \div 10,
                                       !.memory[self.i + 2] = data % 10])

\* Fx55 - LD [I], Vx
ld_i_vx(self, x) ==
    IF self.i + x >= MEMORY_SIZE
    THEN Panic(self)
    ELSE next_program([self EXCEPT !.memory =
             [a \in 0..(MEMORY_SIZE - 1) |->
                 IF a >= self.i /\ a <= self.i + x THEN self.v[a - self.i] ELSE @[a]]])

\* ld_vx_i that reads around the end of the memory
ld_vx_i_wrapped(self, x) ==
    next_program([self EXCEPT !.v =
        [j \in 0..15 |-> IF j <= x THEN self.memory[(self.i + j) % MEMORY_SIZE] ELSE @[j]]])

\* ld_vx_i that stops before Vx
ld_vx_i_exclusive(self, x) ==
    IF self.i + x >= MEMORY_SIZE
    THEN Panic(self)
    ELSE next_program([self EXCEPT !.v =
             [j \in 0..15 |-> IF j < x THEN self.memory[self.i + j] ELSE @[j]]])

\* Fx65 - LD Vx, [I]
ld_vx_i(self, x) ==
    IF self.i + x >= MEMORY_SIZE
    THEN Panic(self)
    ELSE next_program([self EXCEPT !.v =
             [j \in 0..15 |-> IF j <= x THEN self.memory[self.i + j] ELSE @[j]]])

---------------------------------------------------------------------------
(* The dispatcher *)

\* The arm of run_op_code's match that code takes: the first pattern, in the
\* order of the source, that (op1, op2, op3, op4) matches
Arm(code) ==
    LET op1 == BitAnd(code, \hF000) \div 4096
        op2 == BitAnd(code, \h0F00) \div 256
        op3 == BitAnd(code, \h00F0) \div 16
        op4 == BitAnd(code, \h000F)
    IN  CASE op1 = 0 /\ op2 = 0 /\ op3 = 14 /\ op4 = 14 -> "ret"
          [] op1 = 0 /\ op2 = 0 /\ op3 = 14 /\ op4 = 0  -> "cls"
          [] op1 = 1                -> "jp_addr"
          [] op1 = 2                -> "call_addr"
          [] op1 = 3                -> "se_vx_byte"
          [] op1 = 4                -> "sne_vx_byte"
          [] op1 = 5 /\ op4 = 0     -> "se_vx_vy"
          [] op1 = 6                -> "ld_vx_byte"
          [] op1 = 7                -> "add_vx_byte"
          [] op1 = 8 /\ op4 = 0     -> "ld_vx_vy"
          [] op1 = 8 /\ op4 = 1     -> "or_vx_vy"
          [] op1 = 8 /\ op4 = 2     -> "and_vx_vy"
          [] op1 = 8 /\ op4 = 3     -> "xor_vx_vy"
          [] op1 = 8 /\ op4 = 4     -> "add_vx_vy"
          [] op1 = 8 /\ op4 = 5     -> "sub_vx_vy"
          [] op1 = 8 /\ op4 = 6     -> "shr_vx_vy"
          [] op1 = 8 /\ op4 = 7     -> "subn_vx_vy"
          [] op1 = 8 /\ op4 = 14    -> "shl_vx_vy"
          [] op1 = 9 /\ op4 = 0     -> "sne_vx_vy"
          [] op1 = 10               -> "ld_i_addr"
          [] op1 = 11               -> "jp_v0_addr"
          [] op1 = 12               -> "rnd_vx_byte"
          [] op1 = 13               -> "drw_vx_vy_nibble"
          [] op1 = 14 /\ op3 = 9 /\ op4 = 14  -> "skp_vx"
          [] op1 = 14 /\ op3 = 10 /\ op4 = 1  -> "sknp_vx"
          [] op1 = 15 /\ op3 = 0 /\ op4 = 7   -> "ld_vx_dt"
          [] op1 = 15 /\ op3 = 0 /\ op4 = 10  -> "ld_vx_k"
          [] op1 = 15 /\ op3 = 1 /\ op4 = 5   -> "ld_dt_vx"
          [] op1 = 15 /\ op3 = 1 /\ op4 = 8   -> "ld_st_vx"
          [] op1 = 15 /\ op3 = 1 /\ op4 = 14  -> "add_i_vx"
          [] op1 = 15 /\ op3 = 2 /\ op4 = 9   -> "ld_f_vx"
          [] op1 = 15 /\ op3 = 3 /\ op4 = 3   -> "ld_b_vx"
          [] op1 = 15 /\ op3 = 5 /\ op4 = 5   -> "ld_i_vx"
          [] op1 = 15 /\ op3 = 6 /\ op4 = 5   -> "ld_vx_i"
          [] OTHER                  -> "next_program"

\* run_op_code: r is the byte rand::random would return, checked tells whether
\* the build checks arithmetic overflow
run_op_code(self, code, r, checked) ==
    LET nnn == BitAnd(code, \hFFF)
        n   == BitAnd(code, \h000F)
        x   == BitAnd(code, \h0F00) \div 256
        y   == BitAnd(code, \h00F0) \div 16
        kk  == BitAnd(code, \hFF)
        arm == Arm(code)
    IN  CASE arm = "ret"              -> ret(self)
          [] arm = "cls"              -> cls(self)
          [] arm = "jp_addr"          -> jp_addr(self, nnn)
          [] arm = "call_addr"        -> call_addr(self, nnn)
          [] arm = "se_vx_byte"       -> se_vx_byte(self, x, kk)
          [] arm = "sne_vx_byte"      -> sne_vx_byte(self, x, kk)
          [] arm = "se_vx_vy"         -> se_vx_vy(self, x, y)
          [] arm = "ld_vx_byte"       -> ld_vx_byte(self, x, kk)
          [] arm = "add_vx_byte"      -> add_vx_byte(self, x, kk)
          [] arm = "ld_vx_vy"         -> ld_vx_vy(self, x, y)
          [] arm = "or_vx_vy"         -> or_vx_vy(self, x, y)
          [] arm = "and_vx_vy"        -> and_vx_vy(self, x, y)
          [] arm = "xor_vx_vy"        -> xor_vx_vy(self, x, y)
          [] arm = "add_vx_vy"        -> add_vx_vy(self, x, y)
          [] arm = "sub_vx_vy"        -> sub_vx_vy(self, x, y)
          [] arm = "shr_vx_vy"        -> shr_vx_vy(self, x)
          [] arm = "subn_vx_vy"       -> subn_vx_vy(self, x, y)
          [] arm = "shl_vx_vy"        -> shl_vx_vy(self, x)
          [] arm = "sne_vx_vy"        -> sne_vx_vy(self, x, y)
          [] arm = "ld_i_addr"        -> ld_i_addr(self, nnn)
          [] arm = "jp_v0_addr"       -> jp_v0_addr(self, nnn)
          [] arm = "rnd_vx_byte"      -> rnd_vx_byte(self, x, kk, r)
          [] arm = "drw_vx_vy_nibble" -> drw_vx_vy_nibble(self, x, y, n)
          [] arm = "skp_vx"           -> skp_vx(self, x)
          [] arm = "sknp_vx"          -> sknp_vx(self, x)
          [] arm = "ld_vx_dt"         -> ld_vx_dt(self, x)
          [] arm = "ld_vx_k"          -> ld_vx_k(self, x)
          [] arm = "ld_dt_vx"         -> ld_dt_vx(self, x)
          [] arm = "ld_st_vx"         -> ld_st_vx(self, x)
          [] arm = "add_i_vx"         -> add_i_vx(self, x, checked)
          [] arm = "ld_f_vx"          -> ld_f_vx(self, x, checked)
          [] arm = "ld_b_vx"          -> ld_b_vx(self, x)
          [] arm = "ld_i_vx"          -> ld_i_vx(self, x)
          [] arm = "ld_vx_i"          -> ld_vx_i(self, x)
          [] OTHER                    -> next_program(self)

---------------------------------------------------------------------------
(* The keypad and the inputs of one iteration of the cycle loop *)

\* Keypad::get_key_value
get_key_value(keycode) ==
    CASE keycode = "Num1" -> <<1>>
      [] keycode = "Num2" -> <<2>>
      [] keycode = "Num3" -> <<3>>
      [] keycode = "Num4" -> <<12>>
      [] keycode = "Q"    -> <<4>>
      [] keycode = "W"    -> <<5>>
      [] keycode = "E"    -> <<6>>
      [] keycode = "R"    -> <<13>>
      [] keycode = "A"    -> <<7>>
      [] keycode = "S"    -> <<8>>
      [] keycode = "D"    -> <<9>>
      [] keycode = "F"    -> <<14>>
      [] keycode = "Z"    -> <<10>>
      [] keycode = "X"    -> <<0>>
      [] keycode = "C"    -> <<11>>
      [] keycode = "V"    -> <<15>>
      [] OTHER            -> <<>>

\* Keypad::down_key
down_key(k, keycode) == get_key_value(keycode)

\* start_cycle's loop over the pressed keys: the keypad after it, and whether
\* it met Escape (break 'cycle)
RECURSIVE poll_keys(_, _)
poll_keys(k, keys) ==
    IF keys = <<>> THEN [key |-> k, escape |-> FALSE]
    ELSE IF Head(keys) = "Escape" THEN [key |-> k, escape |-> TRUE]
    ELSE poll_keys(down_key(k, Head(keys)), Tail(keys))

\* The end of an iteration that executed an instruction: the timers and up_key
tick(self) ==
    up_key([self EXCEPT !.dt = IF @ > 0 THEN @ - 1 ELSE @,
                        !.st = IF @ > 0 THEN @ - 1 ELSE @])

---------------------------------------------------------------------------
(* Inputs: what the host hands the program *)

\* Half the width of the band of mid-range bytes rand::random may return
RndSpread == 1

\* The bytes rand::random::<u8>() returns in the model
RandBytes == {0, 255} \cup ((128 - RndSpread) .. (127 + RndSpread))

\* The pressed keys one poll of the keyboard state may report, in the order
\* the loop meets them
KeySeqs ==
    { <<>>, <<"Num1">>, <<"Escape">>,
      <<"Num1", "Num2">>,       \* two keys of the block, scancodes 30 and 31
      <<"Num1", "Space">> }     \* a key of the block and one outside it, scancode 44

---------------------------------------------------------------------------
(* Program images (the bytes of the file load_rom reads) *)

\* One instruction from its four nibbles, and from its first nibble and nnn
Ins(a, b, c, d) == << a * 16 + b, c * 16 + d >>
InsAddr(a, nnn) == << a * 16 + (nnn \div 256), nnn % 256 >>

Zeros(n) == [j \in 1..n |-> 0]

\* The address the next byte of image rom is loaded at
Here(rom) == ADDR_PROGRAM_START + Len(rom)

\* rom followed by a jump to itself: the program stops there
Halt(rom) == rom \o InsAddr(1, Here(rom))

\* rom padded with zeros so that bytes are loaded at address addr
At(rom, addr, bytes) == rom \o Zeros(addr - Here(rom)) \o bytes

\* Vx := random, Vy := random, then 8xy<op>
AluRom(x, y, op) ==
    Halt(Ins(12, x, 15, 15) \o Ins(12, y, 15, 15) \o Ins(8, x, y, op))

AluPairs == { <<0, 1>>, <<2, 2>>, <<3, 15>>, <<15, 4>> }

AluRoms == { AluRom(p[1], p[2], op) : p \in AluPairs, op \in {4, 5, 6, 7, 14} }

\* I := base, Vx := random, Vy := random, the same Dxyn three times, then
\* Vx := random and Dxyn again; data is loaded at address base when it is
\* in the program area
DrawRom(x, y, n, base, data) ==
    LET code == Halt(InsAddr(10, base)
                     \o Ins(12, x, 15, 15) \o Ins(12, y, 15, 15)
                     \o Ins(13, x, y, n) \o Ins(13, x, y, n) \o Ins(13, x, y, n)
                     \o Ins(12, x, 15, 15) \o Ins(13, x, y, n))
    IN  IF data = <<>> THEN code ELSE At(code, base, data)

\* The sprite of test_dxyn, drawn twice at (2, 1)
TestDxynRom ==
    At(Halt(Ins(6, 0, 0, 2) \o Ins(6, 1, 0, 1) \o InsAddr(10, \h400)
            \o Ins(13, 0, 1, 4) \o Ins(13, 0, 0, 4) \o Ins(13, 0, 1, 4) \o Ins(13, 0, 1, 4)),
       \h400, << \hEA, \hAC, \hAA, \hE9 >>)

DrawRoms ==
    { DrawRom(0, 1, 5, 0, <<>>),
      DrawRom(2, 3, 3, \h300, << \hFF, \h81, \h01 >>),
      DrawRom(4, 5, 0, \h300, << \hFF >>),
      DrawRom(6, 7, 15, \h300, SubSeq(FONT_SET, 1, 15)),
      DrawRom(1, 0, 2, \hFFE, << \hA5, \hC3 >>),
      DrawRom(0, 1, 2, \hFFF, << \hFF >>),
      TestDxynRom }

\* k nested calls, at addresses 0x200, 0x204, ..., each to the address 4
\* bytes further, then a return at the innermost target and after every call
\* but the first, which is followed by the halt
RECURSIVE NestBody(_, _)
NestBody(j, k) ==
    IF j > k THEN Ins(0, 0, 14, 14)
    ELSE LET p == ADDR_PROGRAM_START + 4 * (j - 1)
         IN  InsAddr(2, p + 4)
             \o (IF j = 1 THEN InsAddr(1, p + 2) ELSE Ins(0, 0, 14, 14))
             \o NestBody(j + 1, k)

NestRom(k) == NestBody(1, k)

\* A call in the last two bytes of the memory, and the return from it
ClampRom ==
    At(InsAddr(1, \hFFE) \o Ins(0, 0, 14, 14), \hFFE, InsAddr(2, \h202))

\* A return with nothing on the stack
UnderflowRom == Ins(0, 0, 14, 14)

StackRoms == { NestRom(STACK_SIZE), NestRom(STACK_SIZE + 1), ClampRom, UnderflowRom }

\* V0..VF := the first font bytes, V0 := random, I := base, Fx55, V0 and Vx
\* overwritten, Fx65
StoreLoadRom(x, base) ==
    Halt(InsAddr(10, 0) \o Ins(15, 15, 6, 5) \o Ins(12, 0, 15, 15)
         \o InsAddr(10, base) \o Ins(15, x, 5, 5)
         \o Ins(6, 0, 10, 10) \o Ins(6, x, 5, 5)
         \o Ins(15, x, 6, 5))

\* Vx := random, I := base, Fx33
BcdRom(x, base) ==
    Halt(Ins(12, x, 15, 15) \o InsAddr(10, base) \o Ins(15, x, 3, 3))

MemRoms ==
    { StoreLoadRom(0, \h300), StoreLoadRom(3, \h300), StoreLoadRom(15, \hFF0),
      StoreLoadRom(15, \hFF1), StoreLoadRom(2, \h1FE),
      BcdRom(0, \h300), BcdRom(15, \hFFD), BcdRom(1, \hFFE) }

\* Every other instruction once, an unknown one, and a jump to the last byte
TourRom ==
       Ins(0, 0, 14, 0)         \* 200: CLS
    \o Ins(6, 0, 0, 5)          \* 202: V0 := 5
    \o Ins(7, 0, 0, 3)          \* 204: V0 := 8
    \o Ins(3, 0, 0, 8)          \* 206: skip, V0 = 8
    \o Ins(0, 0, 0, 0)          \* 208: skipped
    \o Ins(4, 0, 0, 8)          \* 20A: no skip
    \o Ins(6, 1, 0, 8)          \* 20C: V1 := 8
    \o Ins(5, 0, 1, 0)          \* 20E: skip, V0 = V1
    \o Ins(0, 0, 0, 0)          \* 210: skipped
    \o Ins(9, 0, 1, 0)          \* 212: no skip
    \o Ins(6, 1, 0, 3)          \* 214: V1 := 3
    \o Ins(8, 2, 1, 0)          \* 216: V2 := V1
    \o Ins(8, 0, 1, 1)          \* 218: V0 := V0 | V1
    \o Ins(8, 0, 1, 2)          \* 21A: V0 := V0 & V1
    \o Ins(8, 0, 2, 3)          \* 21C: V0 := V0 ^ V2
    \o Ins(5, 1, 2, 1)          \* 21E: unknown
    \o Ins(15, 1, 1, 5)         \* 220: DT := V1
    \o Ins(15, 1, 1, 8)         \* 222: ST := V1
    \o Ins(15, 3, 0, 7)         \* 224: V3 := DT
    \o Ins(15, 1, 1, 14)        \* 226: I := I + V1
    \o Ins(15, 1, 2, 9)         \* 228: I := font of V1
    \o Ins(6, 4, 0, 1)          \* 22A: V4 := 1
    \o Ins(14, 4, 9, 14)        \* 22C: skip if key 1 is down
    \o Ins(14, 4, 10, 1)        \* 22E: skip if key 1 is up
    \o Ins(15, 5, 0, 10)        \* 230: V5 := key
    \o Ins(15, 5, 0, 10)        \* 232: V5 := key
    \o InsAddr(11, \h236)       \* 234: jump to 236 + V0, V0 = 0
    \o InsAddr(1, \hFFF)        \* 236: jump to FFF

\* A jump to the last two instruction slots, 0xFFC and 0xFFE, holding a and b
EdgeRom(a, b) == At(InsAddr(1, \hFFC), \hFFC, a \o b)

EdgeRoms ==
    { EdgeRom(Ins(3, 0, 0, 0), Ins(6, 0, 0, 1)),      \* FFC: skip taken
      EdgeRom(Ins(4, 0, 0, 0), Ins(6, 0, 0, 1)),      \* FFC: no skip, FFE: V0 := 1
      EdgeRom(Ins(4, 0, 0, 0), Ins(3, 0, 0, 0)),      \* FFE: skip taken
      EdgeRom(Ins(14, 0, 9, 14), Ins(5, 1, 2, 1)),    \* FFC: key 0 is up, FFE: unknown
      EdgeRom(Ins(4, 0, 0, 0), Ins(15, 1, 0, 10)) }   \* FFE: V1 := key

\* Instruction words that no arm of the match takes, one of each kind
UnknownCodes ==
    { \h0000, \h00E1, \h00FE, \h0123, \h5121, \h5AAF, \h8128, \h812D, \h812F,
      \h9121, \h9ABF, \hE19F, \hE1A0, \hE000, \hF100, \hF134, \hF166, \hFFFF }

\* V1 := 7, DT := V1, one instruction word, then the halt
UnknownRom(code) ==
    Halt(Ins(6, 1, 0, 7) \o Ins(15, 1, 1, 5) \o << code \div 256, code % 256 >>)

UnknownRoms == { UnknownRom(code) : code \in UnknownCodes }

\* V0 := 255, I := 0xFFF, then k times I := I + V0, then the instruction
\* tail and the halt
AddIRom(k, tail) ==
    Halt(Ins(6, 0, 15, 15) \o InsAddr(10, \hFFF)
         \o [j \in 1..(2 * k) |-> IF j % 2 = 1 THEN \hF0 ELSE \h1E]
         \o tail)

\* The number of additions of 255 that take I from 0xFFF to the last value
\* below 2^16, 0xFF0F
AddsToTop == 240

AddIRoms ==
    { AddIRom(1, Ins(13, 1, 2, 1)), AddIRom(1, Ins(15, 0, 3, 3)),
      AddIRom(1, Ins(15, 0, 5, 5)), AddIRom(1, Ins(15, 0, 6, 5)),
      AddIRom(AddsToTop, Ins(15, 0, 6, 5)),
      AddIRom(AddsToTop + 1, Ins(15, 0, 5, 5)) }

\* A store and a BCD conversion at addresses inside the font table
FontRoms ==
    { Halt(Ins(6, 0, 1, 2) \o InsAddr(10, 0) \o Ins(15, 0, 5, 5)),
      Halt(Ins(6, 0, 15, 15) \o InsAddr(10, \h04E) \o Ins(15, 0, 3, 3)) }

\* V0 := random, then a jump to 0xFF0 + V0
JumpRom == Ins(12, 0, 15, 15) \o InsAddr(11, \hFF0)

\* V1 := 7, DT := V1, then V2 := key
WaitRom == Halt(Ins(6, 1, 0, 7) \o Ins(15, 1, 1, 5) \o Ins(15, 2, 0, 10))

\* Draws whose column register, or row register, is VF
FlagDrawRoms ==
    { DrawRom(15, 1, 2, \h300, << \hFF, \h81 >>),
      DrawRom(1, 15, 2, \h300, << \hFF, \h81 >>) }

\* V0 := random, then I := font of V0
GlyphRom == Halt(Ins(12, 0, 15, 15) \o Ins(15, 0, 2, 9))

Roms ==
    AluRoms \cup DrawRoms \cup StackRoms \cup MemRoms \cup {TourRom} \cup EdgeRoms
        \cup UnknownRoms \cup AddIRoms \cup FontRoms
        \cup FlagDrawRoms \cup {JumpRom, WaitRom, GlyphRom}

---------------------------------------------------------------------------
(* Construction *)

\* load_rom: the bytes of the file from ADDR_PROGRAM_START on; it panics on
\* a byte that would go past the memory
load_rom(mem, rom) ==
    [a \in 0..(MEMORY_SIZE - 1) |->
        IF a >= ADDR_PROGRAM_START /\ a < Here(rom)
        THEN rom[a - ADDR_PROGRAM_START + 1]
        ELSE mem[a]]

\* Chip8::new with its program counter at 0
new_pc_zero ==
    [v        |-> [j \in 0..15 |-> 0],
     i        |-> ADDR_PROGRAM_START,
     stack    |-> [j \in 0..(STACK_SIZE - 1) |-> 0],
     sp       |-> 0,
     dt       |-> 0,
     st       |-> 0,
     frame    |-> [yy \in 0..(FRAME_HEIGHT - 1) |-> [xx \in 0..(FRAME_WIDTH - 1) |-> 0]],
     pc       |-> 0,
     memory   |-> [a \in 0..(MEMORY_SIZE - 1) |->
                     IF a < Len(FONT_SET) THEN FONT_SET[a + 1] ELSE 0],
     key      |-> <<>>,
     panicked |-> FALSE]

\* Chip8::new: the machine it returns
new ==
    [v        |-> [j \in 0..15 |-> 0],
     i        |-> ADDR_PROGRAM_START,
     stack    |-> [j \in 0..(STACK_SIZE - 1) |-> 0],
     sp       |-> 0,
     dt       |-> 0,
     st       |-> 0,
     frame    |-> [yy \in 0..(FRAME_HEIGHT - 1) |-> [xx \in 0..(FRAME_WIDTH - 1) |-> 0]],
     pc       |-> ADDR_PROGRAM_START,
     memory   |-> [a \in 0..(MEMORY_SIZE - 1) |->
                     IF a < Len(FONT_SET) THEN FONT_SET[a + 1] ELSE 0],
     key      |-> <<>>,
     panicked |-> FALSE]

\* The machine right after Chip8::new, as main and the tests construct it
Init ==
    /\ v = new.v
    /\ i = new.i
    /\ stack = new.stack
    /\ sp = new.sp
    /\ dt = new.dt
    /\ st = new.st
    /\ frame = new.frame
    /\ pc = new.pc
    /\ memory = new.memory
    /\ key = new.key
    /\ op_code = <<>>
    /\ status = "constructed"

\* main: chip.load_rom(rom_path), before start_cycle
main_load_rom ==
    /\ status = "constructed"
    /\ \E rom \in Roms :
          /\ memory' = load_rom(memory, rom)
          /\ status' = IF Here(rom) > MEMORY_SIZE THEN "panicked" ELSE "running"
    /\ UNCHANGED <<v, i, stack, sp, dt, st, frame, pc, key, op_code>>

---------------------------------------------------------------------------
(* The cycle loop: one action per way an iteration can go *)

\* The instruction at pc
Fetched == memory[pc] * 256 + memory[pc + 1]

\* cycle_quit taken at the end of an iteration, after the timers
cycle_quit_late ==
    /\ status = "running"
    /\ key' = key
    /\ dt' = IF dt > 0 THEN dt - 1 ELSE dt
    /\ op_code' = <<>>
    /\ status' = "halted"
    /\ UNCHANGED <<v, i, stack, sp, st, frame, pc, memory>>

\* An event Quit, or Escape among the pressed keys: break 'cycle
cycle_quit ==
    /\ status = "running"
    /\ \/ key' = key
       \/ \E keys \in KeySeqs :
             LET p == poll_keys(key, keys)
             IN  /\ p.escape
                 /\ key' = p.key
    /\ op_code' = <<>>
    /\ status' = "halted"
    /\ UNCHANGED <<v, i, stack, sp, dt, st, frame, pc, memory>>

\* The delay has not elapsed: continue
cycle_idle ==
    /\ status = "running"
    /\ \E keys \in KeySeqs :
          LET p == poll_keys(key, keys)
          IN  /\ ~p.escape
              /\ key' = p.key
    /\ op_code' = <<>>
    /\ UNCHANGED <<v, i, stack, sp, dt, st, frame, pc, memory, status>>

\* The fetch reads memory[pc + 1] past the memory
cycle_fetch_panic ==
    /\ status = "running"
    /\ pc + 1 >= MEMORY_SIZE
    /\ \E keys \in KeySeqs :
          LET p == poll_keys(key, keys)
          IN  /\ ~p.escape
              /\ key' = p.key
    /\ op_code' = <<>>
    /\ status' = "panicked"
    /\ UNCHANGED <<v, i, stack, sp, dt, st, frame, pc, memory>>

\* The state after an iteration whose handler returned s for instruction code
Commit(s, code) ==
    /\ op_code' = <<code>>
    /\ IF s.panicked
       THEN /\ status' = "panicked"
            /\ key' = s.key
            /\ UNCHANGED <<v, i, stack, sp, dt, st, frame, pc, memory>>
       ELSE LET t == tick(s)
            IN  /\ v' = t.v
                /\ i' = t.i
                /\ stack' = t.stack
                /\ sp' = t.sp
                /\ dt' = t.dt
                /\ st' = t.st
                /\ frame' = t.frame
                /\ pc' = t.pc
                /\ memory' = t.memory
                /\ key' = t.key
                /\ status' = "running"

\* The delay has elapsed and the instruction at pc takes arm arm of the match
Decoded(arm) ==
    /\ status = "running"
    /\ pc + 1 < MEMORY_SIZE
    /\ Arm(Fetched) = arm

\* The rest of the iteration: the keys, run_op_code, the timers, up_key
ExecuteWith(keys, r, checked) ==
    LET p == poll_keys(key, keys)
    IN  /\ ~p.escape
        /\ Commit(run_op_code([Self EXCEPT !.key = p.key], Fetched, r, checked),
                  Fetched)

\* The same, for the keys the poll may report, the bytes rand::random may
\* return and the builds
Execute(rands, builds) ==
    \E keys \in KeySeqs, r \in rands, checked \in builds :
        ExecuteWith(keys, r, checked)

exec_ret ==
    /\ Decoded("ret")
    /\ Execute({0}, {FALSE})

exec_cls ==
    /\ Decoded("cls")
    /\ Execute({0}, {FALSE})

exec_jp_addr ==
    /\ Decoded("jp_addr")
    /\ Execute({0}, {FALSE})

exec_call_addr ==
    /\ Decoded("call_addr")
    /\ Execute({0}, {FALSE})

exec_se_vx_byte ==
    /\ Decoded("se_vx_byte")
    /\ Execute({0}, {FALSE})

exec_sne_vx_byte ==
    /\ Decoded("sne_vx_byte")
    /\ Execute({0}, {FALSE})

exec_se_vx_vy ==
    /\ Decoded("se_vx_vy")
    /\ Execute({0}, {FALSE})

exec_ld_vx_byte ==
    /\ Decoded("ld_vx_byte")
    /\ Execute({0}, {FALSE})

exec_add_vx_byte ==
    /\ Decoded("add_vx_byte")
    /\ Execute({0}, {FALSE})

exec_ld_vx_vy ==
    /\ Decoded("ld_vx_vy")
    /\ Execute({0}, {FALSE})

exec_or_vx_vy ==
    /\ Decoded("or_vx_vy")
    /\ Execute({0}, {FALSE})

exec_and_vx_vy ==
    /\ Decoded("and_vx_vy")
    /\ Execute({0}, {FALSE})

exec_xor_vx_vy ==
    /\ Decoded("xor_vx_vy")
    /\ Execute({0}, {FALSE})

exec_add_vx_vy ==
    /\ Decoded("add_vx_vy")
    /\ Execute({0}, {FALSE})

exec_sub_vx_vy ==
    /\ Decoded("sub_vx_vy")
    /\ Execute({0}, {FALSE})

exec_shr_vx_vy ==
    /\ Decoded("shr_vx_vy")
    /\ Execute({0}, {FALSE})

exec_subn_vx_vy ==
    /\ Decoded("subn_vx_vy")
    /\ Execute({0}, {FALSE})

exec_shl_vx_vy ==
    /\ Decoded("shl_vx_vy")
    /\ Execute({0}, {FALSE})

exec_sne_vx_vy ==
    /\ Decoded("sne_vx_vy")
    /\ Execute({0}, {FALSE})

exec_ld_i_addr ==
    /\ Decoded("ld_i_addr")
    /\ Execute({0}, {FALSE})

exec_jp_v0_addr ==
    /\ Decoded("jp_v0_addr")
    /\ Execute({0}, {FALSE})

exec_rnd_vx_byte ==
    /\ Decoded("rnd_vx_byte")
    /\ Execute(RandBytes, {FALSE})

exec_drw_vx_vy_nibble ==
    /\ Decoded("drw_vx_vy_nibble")
    /\ Execute({0}, {FALSE})

exec_skp_vx ==
    /\ Decoded("skp_vx")
    /\ Execute({0}, {FALSE})

exec_sknp_vx ==
    /\ Decoded("sknp_vx")
    /\ Execute({0}, {FALSE})

exec_ld_vx_dt ==
    /\ Decoded("ld_vx_dt")
    /\ Execute({0}, {FALSE})

exec_ld_vx_k ==
    /\ Decoded("ld_vx_k")
    /\ Execute({0}, {FALSE})

exec_ld_dt_vx ==
    /\ Decoded("ld_dt_vx")
    /\ Execute({0}, {FALSE})

exec_ld_st_vx ==
    /\ Decoded("ld_st_vx")
    /\ Execute({0}, {FALSE})

exec_add_i_vx ==
    /\ Decoded("add_i_vx")
    /\ Execute({0}, BOOLEAN)

exec_ld_f_vx ==
    /\ Decoded("ld_f_vx")
    /\ Execute({0}, BOOLEAN)

exec_ld_b_vx ==
    /\ Decoded("ld_b_vx")
    /\ Execute({0}, {FALSE})

exec_ld_i_vx ==
    /\ Decoded("ld_i_vx")
    /\ Execute({0}, {FALSE})

exec_ld_vx_i ==
    /\ Decoded("ld_vx_i")
    /\ Execute({0}, {FALSE})

\* An instruction no pattern matches
exec_unknown ==
    /\ Decoded("next_program")
    /\ Execute({0}, {FALSE})

Next ==
    \/ main_load_rom
    \/ cycle_quit
    \/ cycle_idle
    \/ cycle_fetch_panic
    \/ exec_ret
    \/ exec_cls
    \/ exec_jp_addr
    \/ exec_call_addr
    \/ exec_se_vx_byte
    \/ exec_sne_vx_byte
    \/ exec_se_vx_vy
    \/ exec_ld_vx_byte
    \/ exec_add_vx_byte
    \/ exec_ld_vx_vy
    \/ exec_or_vx_vy
    \/ exec_and_vx_vy
    \/ exec_xor_vx_vy
    \/ exec_add_vx_vy
    \/ exec_sub_vx_vy
    \/ exec_shr_vx_vy
    \/ exec_subn_vx_vy
    \/ exec_shl_vx_vy
    \/ exec_sne_vx_vy
    \/ exec_ld_i_addr
    \/ exec_jp_v0_addr
    \/ exec_rnd_vx_byte
    \/ exec_drw_vx_vy_nibble
    \/ exec_skp_vx
    \/ exec_sknp_vx
    \/ exec_ld_vx_dt
    \/ exec_ld_vx_k
    \/ exec_ld_dt_vx
    \/ exec_ld_st_vx
    \/ exec_add_i_vx
    \/ exec_ld_f_vx
    \/ exec_ld_b_vx
    \/ exec_ld_i_vx
    \/ exec_ld_vx_i
    \/ exec_unknown

Spec == Init /\ [][Next]_vars

---------------------------------------------------------------------------
(* Properties.  The operand fields of an instruction word, read off its     *)
(* digits; a step executed instruction code when it leaves it in op_code.   *)

Nib1(code) == code \div 4096
NibX(code) == (code \div 256) % 16
NibY(code) == (code \div 16) % 16
NibN(code) == code % 16

\* Instruction word code has first nibble 8 and last nibble d
Is8(code, d) == Nib1(code) = 8 /\ NibN(code) = d

\* C1. 8xy4 with x # F: Vx becomes (Vx + Vy) mod 256 and VF becomes 1 when
\* Vx + Vy > 255 and 0 otherwise.
C1_AddCarry ==
    [][ (op_code' # <<>> /\ Is8(op_code'[1], 4) /\ NibX(op_code'[1]) # 15)
        => LET x == NibX(op_code'[1])
               y == NibY(op_code'[1])
           IN  /\ status' = "running"
               /\ v'[x] = (v[x] + v[y]) % 256
               /\ v'[15] = IF v[x] + v[y] > 255 THEN 1 ELSE 0 ]_vars

\* C1 witness: 8014 has run with V0 + V1 = 256: the sum wrapped to 0 with a carry.
C1_Witness ==
    /\ op_code = << \h8014 >>
    /\ v[1] = 128
    /\ v[0] = 0
    /\ v[15] = 1

\* C2. 8xy5 with x # F: Vx becomes (Vx - Vy) mod 256 and VF becomes 1 iff
\* Vx >= Vy; 8xy7 with x # F: Vx becomes (Vy - Vx) mod 256 and VF becomes 1 iff
\* Vy >= Vx.  Equal operands give VF = 1.
C2_SubNotBorrow ==
    [][ (op_code' # <<>> /\ NibX(op_code'[1]) # 15)
        => LET x == NibX(op_code'[1])
               y == NibY(op_code'[1])
           IN  /\ Is8(op_code'[1], 5)
                  => /\ status' = "running"
                     /\ v'[x] = (v[x] - v[y] + 256) % 256
                     /\ v'[15] = IF v[x] >= v[y] THEN 1 ELSE 0
               /\ Is8(op_code'[1], 7)
                  => /\ status' = "running"
                     /\ v'[x] = (v[y] - v[x] + 256) % 256
                     /\ v'[15] = IF v[y] >= v[x] THEN 1 ELSE 0 ]_vars

\* C2 witness: 8227 has run on equal operands, leaving 0 and VF = 1.
C2_Witness ==
    /\ op_code = << \h8227 >>
    /\ v[2] = 0
    /\ v[15] = 1

\* C3. 8xy6 with x # F: VF becomes bit 0 of Vx and Vx becomes Vx >> 1; 8xyE
\* with x # F: VF becomes bit 7 of Vx and Vx becomes (Vx << 1) mod 256.
C3_ShiftFlag ==
    [][ (op_code' # <<>> /\ NibX(op_code'[1]) # 15)
        => LET x == NibX(op_code'[1])
           IN  /\ Is8(op_code'[1], 6)
                  => /\ status' = "running"
                     /\ v'[15] = v[x] % 2
                     /\ v'[x] = v[x] \div 2
               /\ Is8(op_code'[1], 14)
                  => /\ status' = "running"
                     /\ v'[15] = v[x] \div 128
                     /\ v'[x] = (v[x] * 2) % 256 ]_vars

\* C3 witness: 801E has run on 128: the result is 0 and the flag is the bit
\* shifted out.
C3_Witness ==
    /\ op_code = << \h801E >>
    /\ v[0] = 0
    /\ v[15] = 1

\* Bit 7 - c (the c-th from the most significant) of sprite row r at base
SpriteBit(mem, base, r, c) == (mem[base + r] \div (2 ^ (7 - c))) % 2

\* Instruction word code is a Dxyn that does not name VF and whose n rows
\* at I lie inside the memory
IsDraw(code) ==
    /\ Nib1(code) = 13
    /\ NibX(code) # 15
    /\ NibY(code) # 15
    /\ i + NibN(code) <= 4096

\* C4. Dxyn with x, y # F and I + n <= 4096: the pixel at row (Vy + r) mod 32,
\* column (Vx + c) mod 64, for r < n and c < 8, becomes its old value xor bit
\* 7 - c of memory[I + r]; every other pixel keeps its value.  The sprite
\* wraps at the edges.
C4_DrawXorWrap ==
    [][ (op_code' # <<>> /\ IsDraw(op_code'[1]))
        => LET x == NibX(op_code'[1])
               y == NibY(op_code'[1])
               n == NibN(op_code'[1])
           IN  /\ status' = "running"
               /\ \A row \in 0..31, col \in 0..63 :
                     LET r == (row - v[y] + 256) % 32
                         c == (col - v[x] + 256) % 64
                     IN  frame'[row][col] =
                            IF r < n /\ c < 8
                            THEN (frame[row][col] + SpriteBit(memory, i, r, c)) % 2
                            ELSE frame[row][col] ]_vars

\* C4 witness: D233 has drawn FF 81 01 at Vx = 255, Vy = 255 on an empty frame:
\* the first row lies in row 31 across the right edge, the others in rows 0, 1.
C4_Witness ==
    /\ op_code = << \hD233 >>
    /\ pc = \h208
    /\ v[2] = 255
    /\ v[3] = 255
    /\ frame[31][63] = 1
    /\ frame[31][0] = 1
    /\ frame[31][6] = 1
    /\ frame[31][7] = 0
    /\ frame[0][63] = 1
    /\ frame[0][6] = 1
    /\ frame[1][6] = 1
    /\ frame[1][63] = 0

\* Some pixel under a set bit of the sprite is lit
Collides(x, y, n) ==
    \E r \in 0..(n - 1), c \in 0..7 :
        /\ SpriteBit(memory, i, r, c) = 1
        /\ frame[(v[y] + r) % 32][(v[x] + c) % 64] = 1

\* C5. Dxyn with x, y # F: VF becomes 1 if some pixel goes from 1 to 0 in
\* this draw, in any of the n rows, and 0 otherwise, whatever it held.
C5_DrawCollision ==
    [][ (op_code' # <<>> /\ IsDraw(op_code'[1]))
        => /\ status' = "running"
           /\ v'[15] = IF Collides(NibX(op_code'[1]), NibY(op_code'[1]), NibN(op_code'[1]))
                       THEN 1 ELSE 0 ]_vars

\* C5 witness: the last D233 has drawn FF 81 01 at column 0 over the same
\* sprite at column 63: the first row collided (columns 0 to 6 went dark, 63
\* stays lit, 7 is new), the last row did not (columns 6 and 7 both lit).
C5_Witness ==
    /\ op_code = << \hD233 >>
    /\ pc = \h210
    /\ v[2] = 0
    /\ v[3] = 0
    /\ v[15] = 1
    /\ frame[0][63] = 1
    /\ frame[0][0] = 0
    /\ frame[0][7] = 1
    /\ frame[2][6] = 1
    /\ frame[2][7] = 1

\* The frame and flag after the Dxyn at pc runs twice in a row
DrawnTwice ==
    LET x  == NibX(Fetched)
        y  == NibY(Fetched)
        n  == NibN(Fetched)
        s1 == drw_vx_vy_nibble(Self, x, y, n)
    IN  drw_vx_vy_nibble(s1, x, y, n)

\* A Dxyn is about to run
DrawFetched == status = "running" /\ pc + 1 < MEMORY_SIZE /\ IsDraw(Fetched)

\* C6 as stated: the same Dxyn twice in a row restores the frame, and the
\* second draw sets VF = 1 whenever the sprite has a set bit.
C6_DrawTwiceAsStated ==
    DrawFetched
    => /\ ~DrawnTwice.panicked
       /\ DrawnTwice.frame = frame
       /\ (\E r \in 0..(NibN(Fetched) - 1), c \in 0..7 : SpriteBit(memory, i, r, c) = 1)
          => DrawnTwice.v[15] = 1

\* C6, amended. The same Dxyn twice in a row restores the frame, and the
\* second draw sets VF = 1 iff the sprite has a set bit over a pixel that
\* was 0 before the first draw.
C6_DrawTwiceRestores ==
    DrawFetched
    => /\ ~DrawnTwice.panicked
       /\ DrawnTwice.frame = frame
       /\ DrawnTwice.v[15] = 1
          <=> \E r \in 0..(NibN(Fetched) - 1), c \in 0..7 :
                 /\ SpriteBit(memory, i, r, c) = 1
                 /\ frame[(v[NibY(Fetched)] + r) % 32][(v[NibX(Fetched)] + c) % 64] = 0

\* C6 witness: the third of three D233 in a row has run: the second erased
\* the sprite with VF = 1, the third has put it back, the frame that the
\* second found, with VF = 0.
C6_Witness ==
    /\ op_code = << \hD233 >>
    /\ pc = \h20C
    /\ memory[pc - 4] * 256 + memory[pc - 3] = \hD233
    /\ memory[pc - 6] * 256 + memory[pc - 5] = \hD233
    /\ v[15] = 0
    /\ frame[v[3] % 32][v[2] % 64] = 1

\* C7 as stated: 00EE on a stack of depth d >= 1 sets PC to exactly
\* stack[d - 1] and the depth to d - 1.
C7_RetAsStated ==
    [][ (op_code' = << \h00EE >> /\ sp >= 1)
        => /\ status' = "running"
           /\ sp' = sp - 1
           /\ pc' = stack[sp - 1] ]_vars

\* C7, amended. 00EE on a stack of depth d >= 1 sets PC to stack[d - 1] + 2,
\* capped at 0xFFF, sets the depth to d - 1 and leaves the stack entries.
C7_RetResumesAfterCall ==
    [][ (op_code' = << \h00EE >> /\ sp >= 1)
        => /\ status' = "running"
           /\ sp' = sp - 1
           /\ pc' = Min(stack[sp - 1] + 2, PC_MAX)
           /\ stack' = stack ]_vars

\* C7 witness: a 00EE has run at depth 2: the depth is 1 and PC is two past
\* the entry it popped, stack[1].
C7_Witness ==
    /\ op_code = << \h00EE >>
    /\ status = "running"
    /\ sp = 1
    /\ stack[1] >= ADDR_PROGRAM_START
    /\ pc = stack[1] + 2

\* Deepest nesting whose call sites are all enumerated
MaxNest == 3

\* Addresses the CALLs nested inside the fetched one are run at: the first
\* slot of the program region, the last slot with a slot after it, and one
\* between
CallSites == { ADDR_PROGRAM_START, \h7FE, \hFFC }

\* The CALLs after the one at pc: every choice of up to MaxNest - 1 sites, and
\* one chain that fills the stack
NestedSites ==
    { << pc >> \o t : t \in UNION { [1..m -> CallSites] : m \in 0..(MaxNest - 1) } }
        \cup { [j \in 1..(STACK_SIZE - sp) |-> IF j = 1 THEN pc ELSE ADDR_PROGRAM_START + 2 * j] }

\* The machine after the nested CALLs run at sites, each to the fetched nnn
RECURSIVE Calls(_, _)
Calls(self, sites) ==
    CASE Len(sites) = 0 -> self
      [] Len(sites) = 1 -> call_addr([self EXCEPT !.pc = sites[1]], Fetched % 4096)
      [] OTHER -> LET half == Len(sites) \div 2
                  IN  CHOOSE s \in { Calls(t, SubSeq(sites, half + 1, Len(sites))) :
                                        t \in { Calls(self, SubSeq(sites, 1, half)) } } : TRUE

\* The machine after k 00EE in a row
RECURSIVE Rets(_, _)
Rets(self, k) ==
    CASE k = 0 -> self
      [] k = 1 -> ret(self)
      [] OTHER -> CHOOSE s \in { Rets(t, k - (k \div 2)) : t \in { Rets(self, k \div 2) } } : TRUE

\* A 2nnn is about to run
CallFetched == Decoded("call_addr")

\* k nested CALLs at sites[1..k] stack the sites themselves, in order, above
\* the depth found
CallsStack(sites) ==
    LET s == Calls(Self, sites)
    IN  /\ ~s.panicked
        /\ s.sp = sp + Len(sites)
        /\ \A j \in 1..Len(sites) : s.stack[sp + j - 1] = sites[j]
        /\ \A j \in 0..(sp - 1) : s.stack[j] = stack[j]

\* C8 as stated: after k nested CALLs at p1..pk, within the capacity, and k
\* RETs, the i-th RET resumes at p(k-i+1) + 2 and the depth is as before.
C8_CallRetAsStated ==
    CallFetched
    => \A sites \in NestedSites :
          (Len(sites) >= 1 /\ sp + Len(sites) <= STACK_SIZE)
          => /\ CallsStack(sites)
             /\ \A n \in 1..Len(sites) :
                   LET r == Rets(Calls(Self, sites), n)
                   IN  /\ ~r.panicked
                       /\ r.pc = sites[Len(sites) - n + 1] + 2
                       /\ r.sp = sp + Len(sites) - n

\* C8, amended. After k nested CALLs at p1..pk, within the capacity, and k
\* RETs, the i-th RET resumes at p(k-i+1) + 2, capped at 0xFFF (a CALL in the
\* last slot, 0xFFE, resumes at 0xFFF), and the depth is as before the first
\* CALL.
C8_CallRetPairing ==
    CallFetched
    => \A sites \in NestedSites :
          (Len(sites) >= 1 /\ sp + Len(sites) <= STACK_SIZE)
          => /\ CallsStack(sites)
             /\ \A n \in 1..Len(sites) :
                   LET r == Rets(Calls(Self, sites), n)
                   IN  /\ ~r.panicked
                       /\ r.pc = Min(sites[Len(sites) - n + 1] + 2, PC_MAX)
                       /\ r.sp = sp + Len(sites) - n

\* C8 witness: the program of STACK_SIZE nested CALLs has run its last 00EE:
\* the depth is back to 0, PC is two past the first CALL, and the last CALL's
\* own address is still in the top slot.
C8_Witness ==
    /\ op_code = << \h00EE >>
    /\ status = "running"
    /\ sp = 0
    /\ pc = ADDR_PROGRAM_START + 2
    /\ stack[0] = ADDR_PROGRAM_START
    /\ stack[STACK_SIZE - 1] = ADDR_PROGRAM_START + 4 * (STACK_SIZE - 1)

\* Ways the registers are changed between the store and the load
Scrambles == { "zero", "complement", "successor" }

Scrambled(val, how) ==
    CASE how = "zero"       -> 0
      [] how = "complement" -> 255 - val
      [] how = "successor"  -> (val + 1) % 256

\* An Fx55 is about to run
StoreFetched == Decoded("ld_i_vx")

\* C9. Fx55, then V0..Vx changed, then Fx65, for every x with I + x <= 4095:
\* V0..Vx, Vx included, are as before the Fx55; the registers above Vx, I and
\* the memory outside [I, I + x] are not modified by either instruction.
C9_StoreLoadRoundTrip ==
    StoreFetched
    => \A x \in 0..15 :
          (i + x <= 4095)
          => \A how \in Scrambles :
                LET s1 == ld_i_vx(Self, x)
                    s2 == [s1 EXCEPT !.v = [j \in 0..15 |->
                                 IF j <= x THEN Scrambled(@[j], how) ELSE @[j]]]
                    s3 == ld_vx_i(s2, x)
                IN  /\ ~s1.panicked
                    /\ ~s3.panicked
                    /\ s1.v = v
                    /\ s1.i = i
                    /\ s1.memory = [a \in 0..(MEMORY_SIZE - 1) |->
                                       IF a >= i /\ a <= i + x THEN v[a - i] ELSE memory[a]]
                    /\ s3.v = v
                    /\ s3.i = i
                    /\ s3.memory = s1.memory

\* C9 witness: FF55 at I = 0xFF0 stored up to the last byte of memory, V0 and
\* VF were overwritten, and FF65 has brought both back.
C9_Witness ==
    /\ op_code = << \hFF65 >>
    /\ status = "running"
    /\ pc = \h210
    /\ i = \hFF0
    /\ v[0] = 255
    /\ v[15] = FONT_SET[16]
    /\ memory[\hFF0] = 255
    /\ memory[\hFFF] = FONT_SET[16]

\* C10. Fx33 with I + 2 <= 4095: memory[I], memory[I+1], memory[I+2] become
\* the hundreds, tens and ones digits of Vx, each in 0..9, and no other byte
\* of memory, no register and not I changes; for the step taken and for
\* every 8-bit value in Vx.
C10_Bcd ==
    [][ (op_code' # <<>> /\ Arm(op_code'[1]) = "ld_b_vx" /\ i + 2 <= 4095)
        => LET x == NibX(op_code'[1])
           IN  /\ status' = "running"
               /\ v' = v
               /\ i' = i
               /\ \A a \in 0..2 : memory'[i + a] \in 0..9
               /\ 100 * memory'[i] + 10 * memory'[i + 1] + memory'[i + 2] = v[x]
               /\ \A a \in 0..(MEMORY_SIZE - 1) :
                     (a < i \/ a > i + 2) => memory'[a] = memory[a]
               /\ \A val \in 0..255 :
                     LET s == ld_b_vx([Self EXCEPT !.v[x] = val], x)
                     IN  /\ ~s.panicked
                         /\ s.i = i
                         /\ s.v = [v EXCEPT ![x] = val]
                         /\ \E h, t, o \in 0..9 :
                               /\ 100 * h + 10 * t + o = val
                               /\ s.memory = [memory EXCEPT ![i] = h, ![i + 1] = t, ![i + 2] = o] ]_vars

\* C10 witness: FF33 has run with VF = 255 and I = 0xFFD: the last three
\* bytes of memory hold 2, 5, 5.
C10_Witness ==
    /\ op_code = << \hFF33 >>
    /\ status = "running"
    /\ i = \hFFD
    /\ v[15] = 255
    /\ memory[\hFFD] = 2
    /\ memory[\hFFE] = 5
    /\ memory[\hFFF] = 5

\* The arms of the match that set PC themselves
ControlArms == { "jp_addr", "call_addr", "jp_v0_addr", "ret" }

\* The arms of the conditional skips
SkipArms ==
    { "se_vx_byte", "sne_vx_byte", "se_vx_vy", "sne_vx_vy", "skp_vx", "sknp_vx" }

\* The condition of the skip code holds, with keypad k
SkipHolds(code, k) ==
    LET x   == NibX(code)
        y   == NibY(code)
        kk  == code % 256
        arm == Arm(code)
    IN  CASE arm = "se_vx_byte"  -> v[x] = kk
          [] arm = "sne_vx_byte" -> v[x] # kk
          [] arm = "se_vx_vy"    -> v[x] = v[y]
          [] arm = "sne_vx_vy"   -> v[x] # v[y]
          [] arm = "skp_vx"      -> k = << v[x] >>
          [] arm = "sknp_vx"     -> k # << v[x] >>

\* The bytes PC advances by when code completes with keypad k
Advance(code, k) ==
    CASE Arm(code) = "ld_vx_k"  -> IF k = <<>> THEN 0 ELSE 2
      [] Arm(code) \in SkipArms -> IF SkipHolds(code, k) THEN 4 ELSE 2
      [] OTHER                  -> 2

\* The keypads an iteration that goes on to fetch may see
Polled ==
    { poll_keys(key, keys).key : keys \in { ks \in KeySeqs : ~poll_keys(key, ks).escape } }

\* C11 as stated: an executed opcode that is not 1nnn, 2nnn, Bnnn, 00EE or a
\* waiting Fx0A advances PC by exactly 2, a skip whose condition holds by
\* exactly 4; PC moves in no other way.
C11_PcAdvanceAsStated ==
    [][ /\ op_code' = <<>> => pc' = pc
        /\ (op_code' # <<>> /\ status' = "running" /\ Arm(op_code'[1]) \notin ControlArms)
           => \E k \in Polled : pc' = pc + Advance(op_code'[1], k) ]_vars

\* C11, amended. An executed opcode that completes and is not 1nnn, 2nnn,
\* Bnnn, 00EE or a waiting Fx0A advances PC by 2, a skip whose condition
\* holds by 4, both capped at 0xFFF: from 0xFFE the advance is 1, and a
\* taken skip advances 3 from 0xFFC and 1 from 0xFFE.  An iteration that
\* executes nothing, and a fatal opcode, leave PC.
C11_PcAdvance ==
    [][ /\ op_code' = <<>> => pc' = pc
        /\ (op_code' # <<>> /\ status' # "running") => pc' = pc
        /\ (op_code' # <<>> /\ status' = "running" /\ Arm(op_code'[1]) \notin ControlArms)
           => /\ \E k \in Polled : pc' = Min(pc + Advance(op_code'[1], k), PC_MAX)
              /\ \A k \in Polled :
                    LET s == run_op_code([Self EXCEPT !.key = k], op_code'[1], 0, FALSE)
                    IN  ~s.panicked => s.pc = Min(pc + Advance(op_code'[1], k), PC_MAX) ]_vars

\* C11 witness: the 6001 in the last slot, 0xFFE, has run: V0 = 1 and PC is
\* 0xFFF, one byte further.
C11_Witness ==
    /\ op_code = << \h6001 >>
    /\ status = "running"
    /\ v[0] = 1
    /\ pc = \hFFF
    /\ memory[\hFFE] = \h60

\* The instruction words the claim lists as unrecognised
ListedUnknown(code) ==
    LET op1 == Nib1(code)
        kk  == code % 256
        n   == NibN(code)
    IN  \/ op1 = 0 /\ code \notin { \h00E0, \h00EE }
        \/ op1 = 5 /\ n # 0
        \/ op1 = 8 /\ (n \in 8..13 \/ n = 15)
        \/ op1 = 9 /\ n # 0
        \/ op1 = 14 /\ kk \notin { \h9E, \hA1 }
        \/ op1 = 15 /\ kk \notin { \h07, \h0A, \h15, \h18, \h1E, \h29, \h33, \h55, \h65 }

\* A sample of all instruction words: every first nibble, y and n, two x
CodeSample ==
    { a * 4096 + x * 256 + y * 16 + n : a \in 0..15, x \in {0, 15}, y \in 0..15, n \in 0..15 }

\* A timer after the end of an iteration that executed an instruction
Ticked(t) == IF t > 0 THEN t - 1 ELSE 0

\* C12 as stated: an instruction word that matches no pattern advances PC by
\* exactly 2, leaves the registers, I, the stack and its depth, the memory,
\* the frame and the timers but for their tick, and the machine runs on.
C12_UnknownAsStated ==
    [][ (op_code' # <<>> /\ Arm(op_code'[1]) = "next_program")
        => /\ status' = "running"
           /\ pc' = pc + 2
           /\ <<v', i', stack', sp', memory', frame'>> = <<v, i, stack, sp, memory, frame>>
           /\ dt' = Ticked(dt)
           /\ st' = Ticked(st) ]_vars

\* C12, amended. An instruction word that matches no pattern sets PC to
\* min(PC + 2, 0xFFF), leaves the registers, I, the stack and its depth, the
\* memory, the frame and the timers but for their tick, and the machine runs
\* on; the words the claim lists are all of them, and only them.
C12_UnknownAdvances ==
    [][ (op_code' # <<>> /\ Arm(op_code'[1]) = "next_program")
        => /\ status' = "running"
           /\ pc' = Min(pc + 2, PC_MAX)
           /\ <<v', i', stack', sp', memory', frame'>> = <<v, i, stack, sp, memory, frame>>
           /\ dt' = Ticked(dt)
           /\ st' = Ticked(st)
           /\ ListedUnknown(op_code'[1])
           /\ \A code \in CodeSample :
                 /\ ListedUnknown(code) <=> Arm(code) = "next_program"
                 /\ ListedUnknown(code)
                    => run_op_code(Self, code, 0, FALSE) = [Self EXCEPT !.pc = Min(pc + 2, PC_MAX)] ]_vars

\* C12 witness: the unknown 5121 in the last slot, 0xFFE, has run: the
\* machine runs on with PC = 0xFFF.
C12_Witness ==
    /\ op_code = << \h5121 >>
    /\ status = "running"
    /\ pc = \hFFF
    /\ memory[\hFFE] = \h51
    /\ sp = 0

\* C13. A 2nnn executed at depth STACK_SIZE and a 00EE executed at depth 0
\* each stop the machine, with the stack as it was; once stopped the machine
\* takes no step; the stack has its STACK_SIZE slots and no other, and
\* wherever the machine runs the depth is between 0 and STACK_SIZE.
C13_StackBoundsFatal ==
    [][ /\ status \notin { "panicked", "halted" }
        /\ sp \in 0..STACK_SIZE
        /\ (op_code' # <<>> /\ Arm(op_code'[1]) = "call_addr" /\ sp = STACK_SIZE)
           => status' = "panicked"
        /\ (op_code' # <<>> /\ Arm(op_code'[1]) = "ret" /\ sp = 0)
           => status' = "panicked"
        /\ (op_code' # <<>> /\ Arm(op_code'[1]) = "call_addr" /\ sp < STACK_SIZE)
           => status' = "running" /\ sp' = sp + 1
        /\ (op_code' # <<>> /\ Arm(op_code'[1]) = "ret" /\ sp > 0)
           => status' = "running" /\ sp' = sp - 1
        /\ status' = "panicked" => <<stack', sp', pc'>> = <<stack, sp, pc>>
        /\ DOMAIN stack' = 0..(STACK_SIZE - 1)
        /\ status' = "running" => sp' \in 0..STACK_SIZE ]_vars

\* C13 witness: the call after STACK_SIZE nested calls has stopped the
\* machine, the stack full and the last call's address still on top.
C13_Witness ==
    /\ op_code # <<>>
    /\ Arm(op_code[1]) = "call_addr"
    /\ status = "panicked"
    /\ sp = STACK_SIZE
    /\ pc = ADDR_PROGRAM_START + 4 * STACK_SIZE
    /\ stack[STACK_SIZE - 1] = ADDR_PROGRAM_START + 4 * (STACK_SIZE - 1)

\* The arms of the instructions that address the memory from I
MemoryArms == { "drw_vx_vy_nibble", "ld_b_vx", "ld_i_vx", "ld_vx_i" }

\* The offset from I of the last byte code touches; -1 for a Dxy0
Extent(code) ==
    CASE Arm(code) = "drw_vx_vy_nibble" -> NibN(code) - 1
      [] Arm(code) = "ld_b_vx"          -> 2
      [] OTHER                          -> NibX(code)

\* Values of I around the end of the memory and up to the largest u16
ISample == {0} \cup (4076..4100) \cup { \h10FE, \h8000, \hFF0F } \cup (65516..65535)

C15_FontImmutable ==
    \A a \in 0..(Len(FONT_SET) - 1) : memory[a] = FONT_SET[a + 1]

\* C15, the state that shows it: F055 has run with I = 0 and V0 = 0x12, and
\* the first byte of the glyph 0 is 0x12.
C15_Witness ==
    /\ op_code = << \hF055 >>
    /\ status = "running"
    /\ i = 0
    /\ memory[0] = \h12
    /\ FONT_SET[1] = \hF0

\* Everything the claim and the code agree on right after construction
ConstructedButI ==
    /\ \A a \in 0..(Len(FONT_SET) - 1) : memory[a] = FONT_SET[a + 1]
    /\ \A a \in Len(FONT_SET)..(MEMORY_SIZE - 1) : memory[a] = 0
    /\ pc = \h200
    /\ \A j \in 0..15 : v[j] = 0
    /\ \A j \in 0..(STACK_SIZE - 1) : stack[j] = 0
    /\ sp = 0
    /\ dt = 0
    /\ st = 0
    /\ \A yy \in 0..31, xx \in 0..63 : frame[yy][xx] = 0

\* C16 as stated: right after construction the memory holds the font table
\* at 0x000..0x04F, PC = 0x200 and every other field is zero, I included.
C16_InitialAsStated == status = "constructed" => (ConstructedButI /\ i = 0)

\* C16, amended. Right after construction the memory holds the font table
\* at 0x000..0x04F, PC = 0x200, I = 0x200 and every other field is zero; no
\* key is down.
C16_InitialState ==
    status = "constructed" => (ConstructedButI /\ i = \h200 /\ key = <<>>)

\* C16 witness: the machine as constructed, no program loaded yet.
C16_Witness ==
    /\ status = "constructed"
    /\ i = \h200
    /\ pc = \h200
    /\ memory[0] = \hF0
    /\ memory[\h200] = 0
    /\ op_code = <<>>

\* C17. In every reachable state PC is within 0..4095, and wherever a Bnnn
\* is about to run it would leave PC there for any V0.
C17_PcInRange ==
    /\ pc \in 0..(MEMORY_SIZE - 1)
    /\ Decoded("jp_v0_addr")
       => \A val \in 0..255 :
             jp_v0_addr([Self EXCEPT !.v[0] = val], Fetched % 4096).pc \in 0..(MEMORY_SIZE - 1)

\* C17 witness: BFF0 has run with V0 = 255: PC is 0xFFF, not 0x10EF.
C17_Witness ==
    /\ op_code = << \hBFF0 >>
    /\ status = "running"
    /\ v[0] = 255
    /\ pc = \hFFF

\* C18 as stated: the timers are decremented on a cadence of their own: not
\* by the execution of an instruction, which changes DT and ST only when it
\* is an Fx15 or an Fx18.
C18_TimersOwnCadence ==
    [][ op_code' # <<>>
        => /\ Arm(op_code'[1]) # "ld_dt_vx" => dt' = dt
           /\ Arm(op_code'[1]) # "ld_st_vx" => st' = st ]_vars

\* C18, the state that shows it: DT was set to 7 by F115, and two executed
\* instructions later, in iterations with no clock but the loop's own, it
\* is 5.
C18_Witness ==
    /\ op_code = << \h5121 >>
    /\ status = "running"
    /\ pc = \h206
    /\ v[1] = 7
    /\ dt = 5

\* C19. Wherever the machine runs, an Fx0A waiting or PC at the last byte
\* included, an iteration can observe the quit signal; the iteration that
\* does executes no instruction, decrements no timer and changes nothing of
\* the machine, and leaves it halted; a halted machine takes no step.
C19_QuitBeforeFetch ==
    [][ /\ status \notin { "halted", "panicked" }
        /\ status = "running" => ENABLED cycle_quit
        /\ status' = "halted"
           => /\ status = "running"
              /\ op_code' = <<>>
              /\ <<v', i', stack', sp', dt', st', frame', pc', memory'>>
                    = <<v, i, stack, sp, dt, st, frame, pc, memory>> ]_vars

\* C19 witness: the machine was halted while F20A was waiting: DT, 6 when
\* the wait began, has run down to 3 over the waiting iterations and stopped
\* there, and V2 has no key.
C19_Witness ==
    /\ status = "halted"
    /\ pc = \h204
    /\ memory[pc] * 256 + memory[pc + 1] = \hF20A
    /\ dt = 3
    /\ v[2] = 0

\* What an Fx0A step does but for where it leaves PC once a key is seen
WaitStep(target) ==
    LET x == NibX(op_code'[1])
    IN  /\ status' = "running"
        /\ <<i', stack', sp', memory', frame'>> = <<i, stack, sp, memory, frame>>
        /\ \E k \in Polled :
              IF k = <<>>
              THEN /\ v' = v
                   /\ pc' = pc
                   /\ Arm(memory'[pc'] * 256 + memory'[pc' + 1]) = "ld_vx_k"
              ELSE /\ v' = [v EXCEPT ![x] = k[1]]
                   /\ pc' = target

\* C20 as stated: an Fx0A executed with no key down leaves PC at itself and
\* the registers, I, the stack, the memory and the frame as they are, and
\* so again in every iteration until a key is seen; with a key of value k
\* seen, Vx := k and PC advances by exactly 2.  An iteration executes the
\* instruction at PC and no other.
C20_KeyWaitAsStated ==
    [][ /\ op_code' # <<>> => op_code'[1] = Fetched
        /\ (op_code' # <<>> /\ Arm(op_code'[1]) = "ld_vx_k") => WaitStep(pc + 2) ]_vars

\* C20, amended. As stated, but with a key seen PC becomes min(PC + 2,
\* 0xFFF): an Fx0A in the last slot, 0xFFE, advances by 1.
C20_KeyWait ==
    [][ /\ op_code' # <<>> => op_code'[1] = Fetched
        /\ (op_code' # <<>> /\ Arm(op_code'[1]) = "ld_vx_k") => WaitStep(Min(pc + 2, PC_MAX)) ]_vars

\* C20 witness: F20A waited, DT running down from 6 to 2 meanwhile, then saw
\* key 1: V2 = 1 and PC is past it.
C20_Witness ==
    /\ op_code = << \hF20A >>
    /\ status = "running"
    /\ pc = \h206
    /\ v[2] = 1
    /\ dt = 2


---------------------------------------------------------------------------
(* C21: the key skips and the keys held down *)

\* The logical keys among the host keys keys
Held(keys) ==
    { get_key_value(keys[j])[1] : j \in { n \in 1..Len(keys) : get_key_value(keys[n]) # <<>> } }

\* C21: an Ex9E executed by an iteration whose poll reported the host keys
\* keys skips the next instruction iff the logical key of value Vx is among
\* them, and an ExA1 skips iff it is not.
C21_KeySkipsSnapshot ==
    [][ \A keys \in KeySeqs :
           ( /\ Decoded(Arm(Fetched))
             /\ Arm(Fetched) \in { "skp_vx", "sknp_vx" }
             /\ pc + 4 <= PC_MAX
             /\ ExecuteWith(keys, 0, FALSE) )
           => LET down == v[NibX(Fetched)] \in Held(keys)
              IN  IF Arm(Fetched) = "skp_vx"
                  THEN (pc' = pc + 4) <=> down
                  ELSE (pc' = pc + 4) <=> ~down ]_vars

\* E49E with V4 = 1 has been executed and has not skipped
C21_Witness ==
    /\ op_code = << \hE49E >>
    /\ v[4] = 1
    /\ pc = \h22E

---------------------------------------------------------------------------
(* C22: Fx29 *)

\* The font table is where Chip8::new put it
FontIntact == \A a \in 0..(Len(FONT_SET) - 1) : memory[a] = FONT_SET[a + 1]

\* C22: for every value of Vx, Fx29 sets I to Vx x 5, the product not
\* truncated to 8 bits; for Vx in 0..15, with the font table intact, the five
\* bytes from I on are the glyph of hex digit Vx.
C22_FontAddress ==
    [][ (op_code' # <<>> /\ Arm(op_code'[1]) = "ld_f_vx")
        => LET vx == v[NibX(op_code'[1])]
           IN  /\ status' = "running"
               /\ i' = vx * 5
               /\ (vx <= 15 /\ FontIntact)
                  => \A j \in 0..4 : memory'[i' + j] = FONT_SET[vx * 5 + j + 1] ]_vars

\* F029 has been executed with V0 = 255 in a build that wraps
C22_Witness ==
    /\ op_code = << \hF029 >>
    /\ v[0] = 255
    /\ status = "running"

---------------------------------------------------------------------------
(* C23: the flag when VF is the destination *)

\* The flag of the arithmetic instruction code on the registers regs: the
\* carry, the not-borrow, or the bit shifted out
FlagOf(code, regs) ==
    LET a == regs[NibX(code)]
        b == regs[NibY(code)]
    IN  CASE NibN(code) = 4  -> IF a + b > 255 THEN 1 ELSE 0
          [] NibN(code) = 5  -> IF a >= b THEN 1 ELSE 0
          [] NibN(code) = 6  -> a % 2
          [] NibN(code) = 7  -> IF b >= a THEN 1 ELSE 0
          [] NibN(code) = 14 -> a \div 128

\* C23: after 8xy4, 8xy5, 8xy6, 8xy7 or 8xyE with x = 0xF, VF holds the flag,
\* not the arithmetic or shifted result; after any of them and after Dxyn,
\* for every x and y, VF is 0 or 1.
C23_FlagWins ==
    [][ (op_code' # <<>> /\ status' = "running")
        => LET code == op_code'[1]
               alu  == Nib1(code) = 8 /\ NibN(code) \in {4, 5, 6, 7, 14}
           IN  /\ (alu /\ NibX(code) = 15) => v'[15] = FlagOf(code, v)
               /\ (alu \/ Nib1(code) = 13) => v'[15] \in {0, 1} ]_vars

\* 8F4E has been executed with bit 7 of VF set, and VF is 2
C23_Witness ==
    /\ op_code = << \h8F4E >>
    /\ v[15] = 2

---------------------------------------------------------------------------
(* C24: Dxyn with VF as a coordinate register *)

\* C24: a Dxyn with x = 0xF or y = 0xF whose rows lie inside the memory
\* draws the sprite at the position given by the values Vx and Vy held
\* before the instruction: the pixel at row (Vy + r) mod 32, column
\* (Vx + c) mod 64 becomes its old value xor bit 7 - c of memory[I + r], and
\* every other pixel keeps its value.
C24_DrawAtEntryPosition ==
    [][ ( /\ op_code' # <<>>
          /\ Nib1(op_code'[1]) = 13
          /\ (NibX(op_code'[1]) = 15 \/ NibY(op_code'[1]) = 15)
          /\ i + NibN(op_code'[1]) <= 4096 )
        => LET x == NibX(op_code'[1])
               y == NibY(op_code'[1])
               n == NibN(op_code'[1])
           IN  /\ status' = "running"
               /\ \A row \in 0..31, col \in 0..63 :
                     LET r == (row - v[y] + 256) % 32
                         c == (col - v[x] + 256) % 64
                     IN  frame'[row][col] =
                            IF r < n /\ c < 8
                            THEN (frame[row][col] + SpriteBit(memory, i, r, c)) % 2
                            ELSE frame[row][col] ]_vars

\* DF12 has been executed for the first time, with V1 = 0: whatever VF held,
\* the row FF lies in columns 0..7 of row 0
C24_Witness ==
    /\ op_code = << \hDF12 >>
    /\ pc = \h208
    /\ v[1] = 0
    /\ frame[0][7] = 1
    /\ frame[0][63] = 0

---------------------------------------------------------------------------
(* C25: the fetch *)

\* C25: in every reachable state in which the driver fetches an instruction,
\* both bytes of the instruction lie inside the memory: PC + 1 <= 4095.
C25_FetchInsideMemory ==
    status = "running" => pc + 1 <= MEMORY_SIZE - 1

\* The fetch at PC = 0xFFF has indexed memory[0x1000] and panicked
C25_Witness ==
    /\ status = "panicked"
    /\ op_code = <<>>
    /\ pc = \hFFF
=============================================================================
